---- MODULE Spec2Model ----
(***************************************************************************)
(* Calculator service: the arithmetic core (calculator.py) and the HTTP    *)
(* facade (app.py).                                                        *)
(*                                                                         *)
(* Python values are records [t, k, n, d]: t is the Python type name, and  *)
(* for a number k is "fin" (the rational n/d in lowest terms, d > 0),      *)
(* "inf", "ninf" or "nan".  Finite floats are kept as exact rationals: the *)
(* values of the model are small, so no operation overflows, and the two   *)
(* IEEE zeros, which compare equal, are one value.                         *)
(***************************************************************************)
EXTENDS Integers, Sequences, FiniteSets, TLC

VARIABLES
    x, y,       \* the operands a caller of the core holds
    calls,      \* the core calls made so far, each with its outcome
    inflight,   \* per worker: the request it serves and how far it got
    log         \* the levels of the records the logger has emitted, in order

vars == <<x, y, calls, inflight, log>>

\* Operands of the model: integers -MaxInt..MaxInt, floats n/d with
\* |n| <= MaxInt and 1 <= d <= MaxDen, and the IEEE specials.
MaxInt == 2
MaxDen == 2
\* Calls the core model records in one behaviour.
MaxCalls == 2
\* JSON numbers a request carries as operands: 0..MaxOperand.
MaxOperand == 2
\* Records the logger holds before the model stops handlers that log.
MaxLog == 3
\* The workers of the hosting runtime that serve requests in parallel.
Workers == {"w1", "w2"}

----------------------------------------------------------------------------
(* Python values *)

Abs(i) == IF i < 0 THEN -i ELSE i

RECURSIVE GCD(_, _)
GCD(a, b) == IF b = 0 THEN a ELSE GCD(b, a % b)

Val(t, k, n, d) == [t |-> t, k |-> k, n |-> n, d |-> d]

\* n/d in lowest terms with a positive denominator (d # 0).
Rat(t, n, d) ==
    LET g == GCD(Abs(n), Abs(d))
        s == IF d < 0 THEN -1 ELSE 1
    IN  Val(t, "fin", (s * n) \div g, Abs(d) \div g)

PyInt(i)      == Val("int", "fin", i, 1)
PyBool(b)     == Val("bool", "fin", IF b THEN 1 ELSE 0, 1)
PyFloat(n, d) == Rat("float", n, d)
PyInf         == Val("float", "inf", 0, 1)
PyNegInf      == Val("float", "ninf", 0, 1)
PyNaN         == Val("float", "nan", 0, 1)
PyStr         == Val("str", "fin", 0, 1)
PyNone        == Val("NoneType", "fin", 0, 1)
PyList        == Val("list", "fin", 0, 1)
NoValue       == Val("novalue", "fin", 0, 1)

Ints     == {PyInt(i) : i \in -MaxInt..MaxInt}
Bools    == {PyBool(TRUE), PyBool(FALSE)}
Floats   == {PyFloat(n, d) : n \in -MaxInt..MaxInt, d \in 1..MaxDen}
                \cup {PyInf, PyNegInf, PyNaN}
Numeric  == Ints \cup Bools \cup Floats
NonNumeric == {PyStr, PyNone, PyList}
PyValues == Numeric \cup NonNumeric

\* isinstance(value, (int, float)); bool is a subclass of int.
IsNumeric(v) == v.t \in {"int", "bool", "float"}
IsIntegral(v) == v.t \in {"int", "bool"}
IsNaN(v) == v.k = "nan"
IsZero(v) == v.k = "fin" /\ v.n = 0

\* -1, 0 or 1
Sign(v) == CASE v.k = "inf" -> 1
             [] v.k = "ninf" -> -1
             [] v.k = "nan" -> 0
             [] OTHER -> IF v.n > 0 THEN 1 ELSE IF v.n < 0 THEN -1 ELSE 0

SignedInf(s) == IF s > 0 THEN PyInf ELSE PyNegInf

\* Python's == on two numbers: by value across int, bool and float; NaN
\* equals nothing, itself included.
PyEq(a, b) ==
    /\ ~IsNaN(a) /\ ~IsNaN(b)
    /\ a.k = b.k
    /\ a.n * b.d = b.n * a.d

\* the type of the result of a binary arithmetic operator other than /
ResultType(a, b) == IF IsIntegral(a) /\ IsIntegral(b) THEN "int" ELSE "float"

\* a + b
PyAdd(a, b) ==
    CASE IsNaN(a) \/ IsNaN(b) -> PyNaN
      [] a.k = "fin" /\ b.k = "fin" ->
            Rat(ResultType(a, b), a.n * b.d + b.n * a.d, a.d * b.d)
      [] a.k = "fin" -> b
      [] b.k = "fin" -> a
      [] OTHER -> IF a.k = b.k THEN a ELSE PyNaN

\* -b
PyNeg(b) ==
    CASE b.k = "fin" -> Val(b.t, "fin", -b.n, b.d)
      [] b.k = "inf" -> PyNegInf
      [] b.k = "ninf" -> PyInf
      [] OTHER -> PyNaN

\* a - b
PySub(a, b) ==
    CASE IsNaN(a) \/ IsNaN(b) -> PyNaN
      [] a.k = "fin" /\ b.k = "fin" ->
            Rat(ResultType(a, b), a.n * b.d - b.n * a.d, a.d * b.d)
      [] a.k = "fin" -> PyNeg(b)
      [] b.k = "fin" -> a
      [] OTHER -> IF a.k = b.k THEN PyNaN ELSE a

\* a * b
PyMul(a, b) ==
    CASE IsNaN(a) \/ IsNaN(b) -> PyNaN
      [] a.k = "fin" /\ b.k = "fin" ->
            Rat(ResultType(a, b), a.n * b.n, a.d * b.d)
      [] IsZero(a) \/ IsZero(b) -> PyNaN
      [] OTHER -> SignedInf(Sign(a) * Sign(b))

\* a / b for b # 0: true division, always a float
PyTrueDiv(a, b) ==
    CASE IsNaN(a) \/ IsNaN(b) -> PyNaN
      [] a.k = "fin" /\ b.k = "fin" -> Rat("float", a.n * b.d, a.d * b.n)
      [] a.k = "fin" -> PyFloat(0, 1)
      [] b.k = "fin" -> SignedInf(Sign(a) * Sign(b))
      [] OTHER -> PyNaN

----------------------------------------------------------------------------
(* calculator.py *)

\* What a call does: the exception it raises ("none": it returns), the
\* exception's message, the value returned, and the steps it ran in order.
Outcome(exc, msg, value, steps) ==
    [exc |-> exc, msg |-> msg, value |-> value, steps |-> steps]

Return(value, steps) == Outcome("none", <<>>, value, steps)
Raise(exc, msg, steps) == Outcome(exc, msg, NoValue, steps)

TypeErrorMsg(v) == <<"Expected numeric type, got ", v.t>>
ZeroDivisionMsg == <<"Cannot divide by zero">>
NativeZeroDivisionMsg == <<"division by zero">>

\* a slip: the operands checked from the last to the first
RECURSIVE ValidateInputsLastFirst(_)
ValidateInputsLastFirst(args) ==
    IF args = <<>> THEN Return(PyNone, <<"validate">>)
    ELSE IF ~IsNumeric(args[Len(args)])
         THEN Raise("TypeError", TypeErrorMsg(args[Len(args)]), <<"validate">>)
         ELSE ValidateInputsLastFirst(SubSeq(args, 1, Len(args) - 1))

\* for value in args: if not isinstance(value, (int, float)): raise TypeError
RECURSIVE ValidateInputs(_)
ValidateInputs(args) ==
    IF args = <<>> THEN Return(PyNone, <<"validate">>)
    ELSE IF ~IsNumeric(Head(args))
         THEN Raise("TypeError", TypeErrorMsg(Head(args)), <<"validate">>)
         ELSE ValidateInputs(Tail(args))

\* a slip: the body of subtract pasted into add
addAsSubtract(a, b) ==
    LET v == ValidateInputs(<<a, b>>)
    IN  IF v.exc # "none" THEN v
        ELSE Return(PySub(a, b), <<"validate", "compute">>)

add(a, b) ==
    LET v == ValidateInputs(<<a, b>>)
    IN  IF v.exc # "none" THEN v
        ELSE Return(PyAdd(a, b), <<"validate", "compute">>)

\* a slip: the operands of the subtraction swapped
subtractSwapped(a, b) ==
    LET v == ValidateInputs(<<a, b>>)
    IN  IF v.exc # "none" THEN v
        ELSE Return(PySub(b, a), <<"validate", "compute">>)

subtract(a, b) ==
    LET v == ValidateInputs(<<a, b>>)
    IN  IF v.exc # "none" THEN v
        ELSE Return(PySub(a, b), <<"validate", "compute">>)

multiply(a, b) ==
    LET v == ValidateInputs(<<a, b>>)
    IN  IF v.exc # "none" THEN v
        ELSE Return(PyMul(a, b), <<"validate", "compute">>)

\* Python's own a / b raises ZeroDivisionError when b == 0.
NativeDiv(a, b, steps) ==
    IF IsZero(b)
    THEN Raise("ZeroDivisionError", NativeZeroDivisionMsg, steps)
    ELSE Return(PyTrueDiv(a, b), steps)

\* a slip: the zero check made on the numerator
divideChecksNumerator(a, b) ==
    LET v == ValidateInputs(<<a, b>>)
    IN  IF v.exc # "none" THEN v
        ELSE IF PyEq(a, PyInt(0))
             THEN Raise("ZeroDivisionError", ZeroDivisionMsg,
                        <<"validate", "zerocheck">>)
             ELSE NativeDiv(a, b, <<"validate", "zerocheck", "compute">>)

divide(a, b) ==
    LET v == ValidateInputs(<<a, b>>)
    IN  IF v.exc # "none" THEN v
        ELSE IF PyEq(b, PyInt(0))
             THEN Raise("ZeroDivisionError", ZeroDivisionMsg,
                        <<"validate", "zerocheck">>)
             ELSE NativeDiv(a, b, <<"validate", "zerocheck", "compute">>)

\* the core function of that name, applied
CallCore(f, a, b) ==
    CASE f = "add" -> add(a, b)
      [] f = "subtract" -> subtract(a, b)
      [] f = "multiply" -> multiply(a, b)
      [] f = "divide" -> divide(a, b)

----------------------------------------------------------------------------
(* Callers of the core as a library: any value may be passed. *)

CallRecord(f, a, b) == [f |-> f, a |-> a, b |-> b, out |-> CallCore(f, a, b)]

\* The caller passes its two operands in either order.
ArgPairs == {<<x, y>>, <<y, x>>}

Call(f) ==
    /\ Len(calls) < MaxCalls
    /\ \E p \in ArgPairs : calls' = Append(calls, CallRecord(f, p[1], p[2]))
    /\ UNCHANGED <<x, y, inflight, log>>

CallAdd      == Call("add")
CallSubtract == Call("subtract")
CallMultiply == Call("multiply")
CallDivide   == Call("divide")

----------------------------------------------------------------------------
(* app.py: requests and responses.  A JSON value is a record: a string     *)
(* [j, s], a number [j, v] holding the Python number it parses to, or the  *)
(* mark of a key that is absent; a JSON object is a record of its keys.    *)

JStr(s) == [j |-> "string", s |-> s]
JNum(v) == [j |-> "number", v |-> v]
JMissing == [j |-> "missing"]

\* class Operation(str, Enum): the values of its four members
Operation == {"add", "subtract", "multiply", "divide"}

\* what a client may send as "operation", and as "a" or "b"
OperationFields == {JStr(s) : s \in Operation \cup {"ADD", "power"}}
                       \cup {JMissing}
OperandFields == {JNum(PyInt(i)) : i \in 0..MaxOperand}
                     \cup {JStr("0"), JStr("abc"), JMissing}

CalcRequest(body, operation, a, b) ==
    [route |-> "calculate", body |-> body,
     operation |-> operation, a |-> a, b |-> b]

\* POST /calculate with a JSON object (the empty object has no key), or
\* with no body at all; GET /health.
NoBodyRequest == CalcRequest("none", JMissing, JMissing, JMissing)
HealthRequest == [route |-> "health", body |-> "none",
                  operation |-> JMissing, a |-> JMissing, b |-> JMissing]
Requests ==
    {CalcRequest("json", o, a, b) :
        o \in OperationFields, a \in OperandFields, b \in OperandFields}
    \cup {NoBodyRequest, HealthRequest}

Response(status, body) == [status |-> status, body |-> body]
NoResponse == Response(0, [none |-> JStr("")])

\* float(v) of a Python number
ToFloat(v) == Val("float", v.k, v.n, v.d)

\* float(s) of a string: the strings of the model that spell a number
ParseFloat(s) == IF s = "0" THEN PyFloat(0, 1) ELSE NoValue

\* a slip: the operand declared with a default, a: float = 0
CoerceFloatDefaultZero(f) ==
    CASE f.j = "number" -> ToFloat(f.v)
      [] f.j = "string" -> ParseFloat(f.s)
      [] OTHER -> PyFloat(0, 1)

\* a: float -- the field's validation: a JSON number, or a string that
\* spells one, becomes a float; anything else is an error.
CoerceFloat(f) ==
    CASE f.j = "number" -> ToFloat(f.v)
      [] f.j = "string" -> ParseFloat(f.s)
      [] OTHER -> NoValue

\* a slip: the operation matched without regard to case
CoerceOperationAnyCase(f) ==
    IF f.j # "string" THEN ""
    ELSE IF f.s = "ADD" THEN "add"
    ELSE IF f.s \in Operation THEN f.s ELSE ""

\* operation: Operation -- the enum member with exactly that value
CoerceOperation(f) ==
    IF f.j = "string" /\ f.s \in Operation THEN f.s ELSE ""

NoModel == [operation |-> "", a |-> NoValue, b |-> NoValue]

\* The errors of validating the body against CalculationRequest, in field
\* order, and the CalculationRequest built when there is none.
FieldError(name, f) ==
    [loc |-> <<"body", name>>,
     type |-> IF f.j = "missing" THEN "missing" ELSE "invalid"]

ValidateRequest(req) ==
    IF req.body = "none"
    THEN [errors |-> <<[loc |-> <<"body">>, type |-> "missing"]>>,
          model |-> NoModel]
    ELSE LET o == CoerceOperation(req.operation)
             a == CoerceFloat(req.a)
             b == CoerceFloat(req.b)
             errs == (IF o = "" THEN <<FieldError("operation", req.operation)>>
                      ELSE <<>>)
                     \o (IF a = NoValue THEN <<FieldError("a", req.a)>>
                         ELSE <<>>)
                     \o (IF b = NoValue THEN <<FieldError("b", req.b)>>
                         ELSE <<>>)
         IN  [errors |-> errs,
              model |-> IF errs = <<>>
                        THEN [operation |-> o, a |-> a, b |-> b]
                        ELSE NoModel]

\* the framework's answer to a request that fails validation
ValidationErrorResponse(errors) == Response(422, [detail |-> errors])

\* the framework's answer to raise HTTPException(status_code, detail)
HTTPExceptionResponse(status, detail) == Response(status, [detail |-> detail])

\* the framework's answer to an exception the handler does not catch
ServerErrorResponse == Response(500, [text |-> JStr("Internal Server Error")])

\* a slip: two entries of the table exchanged
OPERATIONS_Exchanged ==
    [o \in Operation |-> CASE o = "multiply" -> "divide"
                           [] o = "divide" -> "multiply"
                           [] OTHER -> o]

\* a slip: the table left without an entry for one member
OPERATIONS_NoDivide == [o \in Operation \ {"divide"} |-> o]

\* _OPERATIONS: Operation member -> core function
OPERATIONS == [o \in Operation |-> o]

\* a slip: health reports the failures the service has logged
health_check_reports_failures ==
    IF \E i \in 1..Len(log) : log[i] = "WARNING"
    THEN Response(200, [status |-> JStr("degraded")])
    ELSE Response(200, [status |-> JStr("healthy")])

\* def health_check(): return {"status": "healthy"}
health_check == Response(200, [status |-> JStr("healthy")])

\* The body of calculate for the request's operation and operands: what it
\* answers, what it logs and which core function it calls.
Handle(operation, a, b) ==
    IF operation \notin DOMAIN OPERATIONS
    THEN \* func = _OPERATIONS[request.operation] raises KeyError, outside try
         [resp |-> ServerErrorResponse, logged |-> <<>>, called |-> <<>>]
    ELSE
    LET func == OPERATIONS[operation]
        out  == CallCore(func, a, b)
    IN  IF out.exc = "ZeroDivisionError"
        THEN [resp |-> HTTPExceptionResponse(400,
                          [error |-> JStr("division_by_zero"),
                           detail |-> JStr("Cannot divide by zero")]),
              logged |-> <<"WARNING">>,
              called |-> <<func>>]
        ELSE IF out.exc # "none"
        THEN [resp |-> ServerErrorResponse, logged |-> <<>>,
              called |-> <<func>>]
        ELSE [resp |-> Response(200,
                          [operation |-> JStr(operation),
                           a |-> JNum(ToFloat(a)),
                           b |-> JNum(ToFloat(b)),
                           result |-> JNum(ToFloat(out.value))]),
              logged |-> <<"INFO">>,
              called |-> <<func>>]

\* a slip: the request kept in a module-level variable that the workers
\* share, so that a handler may read the operand of a request another
\* worker has stored since
calculateSharedRequest(request) ==
    LET others == {w \in Workers : /\ inflight[w].pc = "handler"
                                   /\ inflight[w].req.route = "calculate"
                                   /\ inflight[w].request # request}
    IN  IF others = {} THEN Handle(request.operation, request.a, request.b)
        ELSE Handle(request.operation, request.a,
                    inflight[CHOOSE w \in others : TRUE].request.b)

\* def calculate(request: CalculationRequest)
calculate(request) == Handle(request.operation, request.a, request.b)

----------------------------------------------------------------------------
(* The service: each worker takes a request, the framework validates its   *)
(* body as it arrives, the handler runs, the response is sent.             *)

Slot(pc, req, request, resp, called) ==
    [pc |-> pc, req |-> req, request |-> request, resp |-> resp,
     called |-> called]

Idle == Slot("idle", HealthRequest, NoModel, NoResponse, <<>>)

\* POST /calculate arrives at a free worker and its body fails validation:
\* the framework answers 422 and the handler is not called
ReceiveInvalid(w) ==
    /\ inflight[w].pc = "idle"
    /\ \E req \in Requests :
         LET v == ValidateRequest(req)
         IN  /\ req.route = "calculate"
             /\ v.errors # <<>>
             /\ inflight' = [inflight EXCEPT ![w] =
                    Slot("done", req, NoModel,
                         ValidationErrorResponse(v.errors), <<>>)]
    /\ UNCHANGED <<x, y, calls, log>>

\* POST /calculate arrives and its body validates: the handler will be
\* called with the CalculationRequest
ReceiveValid(w) ==
    /\ inflight[w].pc = "idle"
    /\ \E req \in Requests :
         LET v == ValidateRequest(req)
         IN  /\ req.route = "calculate"
             /\ v.errors = <<>>
             /\ inflight' = [inflight EXCEPT ![w] =
                    Slot("handler", req, v.model, NoResponse, <<>>)]
    /\ UNCHANGED <<x, y, calls, log>>

\* GET /health arrives: there is no body to validate
ReceiveHealth(w) ==
    /\ inflight[w].pc = "idle"
    /\ inflight' = [inflight EXCEPT ![w] =
           Slot("handler", HealthRequest, NoModel, NoResponse, <<>>)]
    /\ UNCHANGED <<x, y, calls, log>>

\* the handler calculate runs
Calculate(w) ==
    /\ inflight[w].pc = "handler"
    /\ inflight[w].req.route = "calculate"
    /\ LET r == calculate(inflight[w].request)
       IN  /\ Len(log) + Len(r.logged) <= MaxLog
           /\ log' = log \o r.logged
           /\ inflight' = [inflight EXCEPT ![w].pc = "done",
                              ![w].resp = r.resp, ![w].called = r.called]
    /\ UNCHANGED <<x, y, calls>>

\* the handler health_check runs
HealthCheck(w) ==
    /\ inflight[w].pc = "handler"
    /\ inflight[w].req.route = "health"
    /\ inflight' = [inflight EXCEPT ![w].pc = "done",
                       ![w].resp = health_check]
    /\ UNCHANGED <<x, y, calls, log>>

\* the response is sent and the worker is free again
Send(w) ==
    /\ inflight[w].pc = "done"
    /\ inflight' = [inflight EXCEPT ![w] = Idle]
    /\ UNCHANGED <<x, y, calls, log>>

----------------------------------------------------------------------------
(* Specifications *)

ServiceStart ==
    /\ inflight = [w \in Workers |-> Idle]
    /\ log = <<>>

\* the service, with no library caller of the core
Init ==
    /\ x = NoValue /\ y = NoValue /\ calls = <<>>
    /\ ServiceStart

Next ==
    \E w \in Workers :
        \/ ReceiveInvalid(w)
        \/ ReceiveValid(w)
        \/ ReceiveHealth(w)
        \/ Calculate(w)
        \/ HealthCheck(w)
        \/ Send(w)

Spec == Init /\ [][Next]_vars

\* the core called as a library, with operands of any Python type
CoreInit ==
    /\ x \in PyValues /\ y \in PyValues /\ calls = <<>>
    /\ ServiceStart

CoreNext == CallAdd \/ CallSubtract \/ CallMultiply \/ CallDivide

CoreSpec == CoreInit /\ [][CoreNext]_vars

----------------------------------------------------------------------------
(* Properties of the core, under CoreSpec *)

CallIds == 1..Len(calls)
NumericCall(c) == IsNumeric(c.a) /\ IsNumeric(c.b)
Returned(c) == c.out.exc = "none"

\* C5: divide(a, b) with numeric operands raises ZeroDivisionError("Cannot
\* divide by zero") and returns no value whenever b == 0, whatever a is
\* (a = 0 included); for b != 0 it raises no ZeroDivisionError and returns
\* a / b.
C5_DivideByZero ==
    \A i \in CallIds :
        LET c == calls[i]
        IN  (c.f = "divide" /\ NumericCall(c)) =>
              IF IsZero(c.b)
              THEN /\ c.out.exc = "ZeroDivisionError"
                   /\ c.out.msg = <<"Cannot divide by zero">>
                   /\ c.out.value = NoValue
                   /\ c.out.steps = <<"validate", "zerocheck">>
              ELSE /\ c.out.exc = "none"
                   /\ c.out.value = PyTrueDiv(c.a, c.b)

\* divide(0, 0.0) was called and raised ZeroDivisionError.
C5_Witness ==
    \E i \in CallIds :
        /\ calls[i].f = "divide" /\ NumericCall(calls[i])
        /\ IsZero(calls[i].a) /\ IsZero(calls[i].b)
        /\ calls[i].b.t = "float"
        /\ calls[i].out.exc = "ZeroDivisionError"

\* The two calls are the same operation with the operands exchanged.
Mirrored(c, e) == c.f = e.f /\ c.a = e.b /\ c.b = e.a

\* C8 as stated: for all numeric a and b, add(a, b) == add(b, a) and
\* multiply(a, b) == multiply(b, a).
C8_CommutativeAsStated ==
    \A i, j \in CallIds :
        LET c == calls[i]
            e == calls[j]
        IN  (c.f \in {"add", "multiply"} /\ NumericCall(c) /\ Mirrored(c, e))
              => /\ Returned(c) /\ Returned(e)
                 /\ PyEq(c.out.value, e.out.value)

\* C8 as amended: for all numeric a and b, add(a, b) and add(b, a) return
\* the same value, and so do multiply(a, b) and multiply(b, a); the two
\* compare equal with == unless that value is NaN.
C8_Commutative ==
    \A i, j \in CallIds :
        LET c == calls[i]
            e == calls[j]
        IN  (c.f \in {"add", "multiply"} /\ NumericCall(c) /\ Mirrored(c, e))
              => /\ Returned(c) /\ Returned(e)
                 /\ c.out.value = e.out.value
                 /\ ~IsNaN(c.out.value) => PyEq(c.out.value, e.out.value)

\* add(a, b) and add(b, a) were both called with different numbers, an int
\* and a float, and returned a number.
C8_Witness ==
    \E i, j \in CallIds :
        /\ calls[i].f = "add" /\ Mirrored(calls[i], calls[j])
        /\ calls[i].a.t = "int" /\ calls[i].b.t = "float"
        /\ ~PyEq(calls[i].a, calls[i].b)
        /\ Returned(calls[i]) /\ Returned(calls[j])
        /\ ~IsNaN(calls[i].out.value)

\* the call applies an operation to a and that operation's identity element
IdentityCall(c) ==
    /\ IsNumeric(c.a)
    /\ \/ c.f \in {"add", "subtract"} /\ c.b = PyInt(0)
       \/ c.f \in {"multiply", "divide"} /\ c.b = PyInt(1)

\* C9 as stated: for every numeric a, subtract(a, 0) == a, add(a, 0) == a,
\* multiply(a, 1) == a and divide(a, 1) == a, and divide(a, 1) does not fail.
C9_IdentityAsStated ==
    \A i \in CallIds :
        IdentityCall(calls[i]) =>
            /\ Returned(calls[i])
            /\ PyEq(calls[i].out.value, calls[i].a)

\* C9 as amended: the same for every numeric a that is not NaN; for a = NaN
\* each of the four calls returns NaN.
C9_Identity ==
    \A i \in CallIds :
        IdentityCall(calls[i]) =>
            /\ Returned(calls[i])
            /\ IF IsNaN(calls[i].a)
               THEN IsNaN(calls[i].out.value)
               ELSE PyEq(calls[i].out.value, calls[i].a)

\* divide(a, 1) was called with the float a = n/2 and returned it.
C9_Witness ==
    \E i \in CallIds :
        /\ calls[i].f = "divide" /\ IdentityCall(calls[i])
        /\ calls[i].a.t = "float" /\ calls[i].a.d = 2
        /\ Returned(calls[i])
        /\ PyEq(calls[i].out.value, calls[i].a)

\* the first operand, a before b, that is not numeric
FirstOffender(c) == IF ~IsNumeric(c.a) THEN c.a ELSE c.b

\* C10: every core operation checks both operands first: with an operand
\* that is not numeric it raises TypeError("Expected numeric type, got
\* <type>") naming the type of the first such operand, after the check alone
\* (in divide, before the zero check); with two numeric operands it raises
\* no TypeError.
C10_InvalidOperand ==
    \A i \in CallIds :
        LET c == calls[i]
        IN  IF NumericCall(c)
            THEN /\ c.out.exc # "TypeError"
                 /\ Head(c.out.steps) = "validate"
            ELSE /\ c.out.exc = "TypeError"
                 /\ c.out.msg = <<"Expected numeric type, got ",
                                  FirstOffender(c).t>>
                 /\ c.out.value = NoValue
                 /\ c.out.steps = <<"validate">>

\* divide(None, 0) raised TypeError and not ZeroDivisionError, and
\* divide(0, None) raised TypeError for its second operand.
C10_Witness ==
    \E i, j \in CallIds :
        /\ calls[i].f = "divide" /\ calls[i].a = PyNone
        /\ IsZero(calls[i].b) /\ calls[i].out.exc = "TypeError"
        /\ calls[j].f = "divide" /\ calls[j].b = PyNone
        /\ IsZero(calls[j].a) /\ calls[j].out.exc = "TypeError"

----------------------------------------------------------------------------
(* Properties of the service, under Spec *)

\* The request's body has the CalculationRequest shape: operation is one of
\* the four literals, and a and b are numbers or spell one.
NumericStrings == {"0"}
Coercible(f) ==
    \/ f.j = "number"
    \/ f.j = "string" /\ f.s \in NumericStrings
WellFormed(req) ==
    /\ req.body = "json"
    /\ req.operation \in {JStr("add"), JStr("subtract"),
                          JStr("multiply"), JStr("divide")}
    /\ Coercible(req.a) /\ Coercible(req.b)

\* the number an operand of a well-formed request stands for
OperandOf(f) == IF f.j = "number" THEN ToFloat(f.v) ELSE PyFloat(0, 1)

DivisionByZeroRequest(req) ==
    /\ WellFormed(req)
    /\ req.operation = JStr("divide")
    /\ IsZero(OperandOf(req.b))

Answered(w) == inflight[w].pc = "done"
AnsweredCalc(w) == Answered(w) /\ inflight[w].req.route = "calculate"

\* C1: a POST /calculate with operation divide and b == 0 is answered 400
\* with the body {"error": "division_by_zero", "detail": "Cannot divide by
\* zero"}, both keys at the top level.
C1_DivisionByZeroBody ==
    \A w \in Workers :
        (AnsweredCalc(w) /\ DivisionByZeroRequest(inflight[w].req)) =>
            /\ inflight[w].resp.status = 400
            /\ inflight[w].resp.body =
                   [error |-> JStr("division_by_zero"),
                    detail |-> JStr("Cannot divide by zero")]

\* C2: POST /calculate is answered 422 exactly when the body is malformed:
\* absent or empty, operation missing or not one of the four literals (a
\* case variant, an unknown name), a or b missing or not coercible.
C2_Malformed422 ==
    \A w \in Workers :
        AnsweredCalc(w) =>
            (inflight[w].resp.status = 422 <=> ~WellFormed(inflight[w].req))

\* operation "ADD" was answered 422 while a request whose operand is the
\* string "0" was not.
C2_Witness ==
    \E w, v \in Workers :
        /\ AnsweredCalc(w) /\ AnsweredCalc(v)
        /\ inflight[w].req.operation = JStr("ADD")
        /\ Coercible(inflight[w].req.a) /\ Coercible(inflight[w].req.b)
        /\ inflight[w].resp.status = 422
        /\ inflight[v].req.a = JStr("0")
        /\ inflight[v].resp.status = 200

\* C3: a request that fails validation never reaches the handler: no core
\* function is called for it, and it is answered 422, never 400, even when
\* it asks to divide by 0.
C3_ValidationBeforeDispatch ==
    \A w \in Workers :
        (/\ inflight[w].pc # "idle"
         /\ inflight[w].req.route = "calculate"
         /\ ~WellFormed(inflight[w].req)) =>
            /\ inflight[w].pc = "done"
            /\ inflight[w].called = <<>>
            /\ inflight[w].request = NoModel
            /\ inflight[w].resp.status = 422

\* divide with b = 0 and a missing, and divide with b = 0 and a = "abc",
\* were both answered 422 with no core call.
C3_Witness ==
    \E w, v \in Workers :
        /\ Answered(w) /\ Answered(v)
        /\ inflight[w].req = CalcRequest("json", JStr("divide"), JMissing,
                                         JNum(PyInt(0)))
        /\ inflight[v].req = CalcRequest("json", JStr("divide"), JStr("abc"),
                                         JNum(PyInt(0)))
        /\ inflight[w].resp.status = 422 /\ inflight[w].called = <<>>
        /\ inflight[v].resp.status = 422 /\ inflight[v].called = <<>>

\* the named operation applied to (a, b), in that order
Applied(operation, a, b) ==
    CASE operation = "add" -> PyAdd(a, b)
      [] operation = "subtract" -> PySub(a, b)
      [] operation = "multiply" -> PyMul(a, b)
      [] operation = "divide" -> PyTrueDiv(a, b)

C6_SameRequestSameResponse ==
    \A w, v \in Workers :
        (/\ Answered(w) /\ Answered(v)
         /\ inflight[w].req = inflight[v].req) =>
            inflight[w].resp = inflight[v].resp

\* the same valid calculation was answered twice, by two workers, the
\* second after the first had been logged
C6_Witness ==
    \E w, v \in Workers :
        /\ w # v /\ AnsweredCalc(w) /\ AnsweredCalc(v)
        /\ inflight[w].req = inflight[v].req
        /\ inflight[w].resp.status = 200
        /\ inflight[w].resp = inflight[v].resp
        /\ Len(log) = 2

\* a step in which worker w's health_check handler returns
HealthReturns(w) ==
    /\ inflight[w].pc = "handler" /\ inflight[w].req.route = "health"
    /\ inflight'[w].pc = "done"

\* C7: GET /health is answered 200 with the body {"status": "healthy"} in
\* every state of the service, whatever was served before, and serving it
\* changes nothing but the worker that serves it.
C7_Health ==
    /\ [](\A w \in Workers :
            (Answered(w) /\ inflight[w].req.route = "health") =>
                inflight[w].resp = Response(200, [status |-> JStr("healthy")]))
    /\ [][\A w \in Workers :
            HealthReturns(w) =>
                /\ log' = log
                /\ \A v \in Workers \ {w} : inflight'[v] = inflight[v]]_vars

\* GET /health was answered after a division by zero had been answered 400
\* and logged.
C7_Witness ==
    \E w, v \in Workers :
        /\ Answered(w) /\ inflight[w].req.route = "health"
        /\ inflight[w].resp.status = 200
        /\ Answered(v) /\ inflight[v].resp.status = 400
        /\ log # <<>> /\ log[1] = "WARNING"

\* the worker serves a POST /calculate whose body passed validation
Validated(w) ==
    /\ inflight[w].pc \in {"handler", "done"}
    /\ inflight[w].req.route = "calculate"
    /\ inflight[w].request # NoModel

====
